---- MODULE Spec2Model ----
(***************************************************************************)
(* Report deduplication engine of NeuroCity (backend/server.js,            *)
(* backend/aiService.js, backend/database.js).                             *)
(*                                                                         *)
(* The store is the sqlite table `reports`; a row's id is its position in  *)
(* the sequence (INTEGER PRIMARY KEY AUTOINCREMENT, rows are never         *)
(* deleted).  Every POST /report handler is a process whose awaits and     *)
(* database callbacks are the points where other handlers interleave.      *)
(***************************************************************************)
EXTENDS Integers, Sequences, FiniteSets, TLC

\* ---------------------------------------------------------------- bounds
MaxSub  == 3        \* POST /report requests over the life of the run
MaxTime == 1        \* last value of the wall clock (seconds resolution)
MaxSweepers == 1    \* sweeps that can be in progress at the same time

\* ------------------------------------------------------- program constants
radiusMeters == 5000        \* 50 m, in centimetres
Threshold    == 80          \* similarityScore >= 80 marks a duplicate
FallbackCap  == 50          \* Math.min(50, sizeSimularity)

NULL == 0                   \* SQL NULL / JS null for ids

\* --------------------------------------------------------------- inputs
\* Two submission points, 0.00045 degrees of latitude apart:
\*   1 = (12.00000, 77.00000)     2 = (12.00045, 77.00000)
Locations == 1..2

\* What a client can send as well: 3 = (95.00000, 77.00000), a latitude
\* outside [-90, 90].  Latitude and Longitude are in units of 0.00001 degree.
Coordinates == 1..3
Latitude    == <<1200000, 1200045, 9500000>>
Longitude   == <<7700000, 7700000, 7700000>>

\* Photos are named by a number; FileSize is the size of the uploaded file
\* in kilobytes (what fs.statSync reports to the fallback estimator).
Photos   == 1..2
FileSize == <<100, 300>>

Statuses == {"pending", "verified", "resolved"}

\* ------------------------------------------------------------ aiService
\* calculateDistance: the haversine formula (R = 6371e3 m) on two submission
\* points, in whole centimetres.  On points 1 and 2 it gives 50.038 m, just
\* outside the 50 m radius; a point is at distance 0 of itself; the formula
\* takes latitude 95 like any other number (9229 km from points 1 and 2).
calculateDistance(a, b) ==
    IF a = b THEN 0
    ELSE IF a = 3 THEN <<922917891, 922912887>>[b]
    ELSE IF b = 3 THEN <<922917891, 922912887>>[a]
    ELSE 5003

Min(a, b) == IF a < b THEN a ELSE b
Max(a, b) == IF a > b THEN a ELSE b
Abs(a)    == IF a < 0 THEN -a ELSE a

\* similarityScore values the parsed Gemini answer can carry for two photos:
\* 100 for the same picture; for two different pictures the answer may fall
\* on either side of the duplicate threshold.
OracleScores(p, q) == IF p = q THEN {100} ELSE {79, 80}

\* The estimate capped at the duplicate threshold instead of 50.
fallbackImageSimilarity_CapAtThreshold(p, q) ==
    LET sizeDiff       == Abs(FileSize[p] - FileSize[q])
        sizeSimularity == Max(0, 100 - (sizeDiff * 200) \div (FileSize[p] + FileSize[q]))
    IN  [similarityScore |-> Min(Threshold, sizeSimularity), fallbackUsed |-> TRUE]

\* The estimate without the cap of 50.
fallbackImageSimilarity_Uncapped(p, q) ==
    LET sizeDiff       == Abs(FileSize[p] - FileSize[q])
        sizeSimularity == Max(0, 100 - (sizeDiff * 200) \div (FileSize[p] + FileSize[q]))
    IN  [similarityScore |-> sizeSimularity, fallbackUsed |-> TRUE]

\* fallbackImageSimilarity: Math.min(50, sizeSimularity) with
\* sizeSimularity = max(0, 100 - sizeDiff / avgSize * 100).
fallbackImageSimilarity(p, q) ==
    LET sizeDiff       == Abs(FileSize[p] - FileSize[q])
        sizeSimularity == Max(0, 100 - (sizeDiff * 200) \div (FileSize[p] + FileSize[q]))
    IN  [similarityScore |-> Min(FallbackCap, sizeSimularity), fallbackUsed |-> TRUE]

\* compareImages: the oracle's answer, or the fallback when the API key is
\* not configured or the last attempt failed.
compareImages(p, q) ==
    {[similarityScore |-> sc, fallbackUsed |-> FALSE] : sc \in OracleScores(p, q)}
        \cup {fallbackImageSimilarity(p, q)}

VARIABLES reports,    \* the rows of table reports, by id
          subs,       \* the POST /report handlers
          now,        \* wall clock
          oracle,     \* the oracle call each handler is in, if any
          sweeps,     \* the escalation sweeps in progress
          escalations,\* per report: firings of the transition on-time -> escalated
          sent,       \* per report: notifications the sink acknowledged
          logged      \* sweeps that ended with an error, as the log shows them

\* The scheduler's part of the state.
sched == <<sweeps, escalations, sent, logged>>

vars == <<reports, subs, now, oracle, sweeps, escalations, sent, logged>>

Ids == 1..MaxSub

\* Variants of the row filter of findNearbyReports with one condition
\* dropped or narrowed, each a slip the properties below detect.
NearbySet_AnyRow(loc, excludeId) ==
    {i \in 1..Len(reports) :
        /\ reports[i].status \in {"pending", "verified"}
        /\ i # excludeId
        /\ calculateDistance(loc, reports[i].loc) <= radiusMeters}

NearbySet_AnyDistance(loc, excludeId) ==
    {i \in 1..Len(reports) :
        /\ reports[i].is_primary
        /\ reports[i].status \in {"pending", "verified"}
        /\ i # excludeId}

NearbySet_PendingOnly(loc, excludeId) ==
    {i \in 1..Len(reports) :
        /\ reports[i].is_primary
        /\ reports[i].status = "pending"
        /\ i # excludeId
        /\ calculateDistance(loc, reports[i].loc) <= radiusMeters}

\* Rows that pass the WHERE clause and the distance filter of
\* findNearbyReports.
NearbySet(loc, excludeId) ==
    {i \in 1..Len(reports) :
        /\ reports[i].is_primary
        /\ reports[i].status \in {"pending", "verified"}
        /\ i # excludeId
        /\ calculateDistance(loc, reports[i].loc) <= radiusMeters}

\* ORDER BY created_at DESC: every ordering of the rows with non-increasing
\* created_at (rows of the same second come in an order SQL leaves open).
findNearbyReports(loc, excludeId) ==
    LET S == NearbySet(loc, excludeId)
        n == Cardinality(S)
    IN  {q \in [1..n -> S] :
            /\ \A i, j \in 1..n : i # j => q[i] # q[j]
            /\ \A i, j \in 1..n :
                   i < j => reports[q[i]].created_at >= reports[q[j]].created_at}

\* ------------------------------------------------------------- handlers
\* Once the response is sent only the response is kept of a handler.
Responded(code) ==
    [pc |-> "done", loc |-> 0, photo |-> 0, nearbyReports |-> <<>>,
     results |-> <<>>, primaryReportId |-> NULL, reportId |-> NULL,
     slaDeadline |-> 0, http |-> code]

IdleSub == [pc |-> "idle", loc |-> 0, photo |-> 0, nearbyReports |-> <<>>,
            results |-> <<>>, primaryReportId |-> NULL, reportId |-> NULL,
            slaDeadline |-> 0, http |-> 0]

\* No call of analyzeImage or compareImages in progress.
NoCall == [fn |-> "none", attempt |-> 0, waiting |-> FALSE]

Sweepers  == 1..MaxSweepers
IdleSweep == [pc |-> "idle", at |-> 0, queue |-> {}]

Init ==
    /\ reports = <<>>
    /\ subs = [s \in Ids |-> IdleSub]
    /\ now = 0
    /\ oracle = [s \in Ids |-> NoCall]
    /\ sweeps = [w \in Sweepers |-> IdleSweep]
    /\ escalations = [i \in Ids |-> 0]
    /\ sent = [i \in Ids |-> 0]
    /\ logged = 0

\* Requests are numbered in the order in which they arrive.
Arrives(s) ==
    /\ subs[s].pc = "idle"
    /\ \A t \in Ids : t < s => subs[t].pc # "idle"

\* POST /report without photo or coordinates: 400 before anything else.
SubmitInvalid(s) ==
    /\ Arrives(s)
    /\ subs' = [subs EXCEPT ![s] = Responded(400)]
    /\ UNCHANGED <<reports, now, oracle, sched>>

\* The loop with `>` in place of `>=` in the duplicate test.
RECURSIVE similarityLoop_StrictThreshold(_, _, _)
similarityLoop_StrictThreshold(photo, nearbyReports, results) ==
    IF Len(results) = Len(nearbyReports)
    THEN {[results |-> results, primaryReportId |-> NULL]}
    ELSE LET nearbyReport == nearbyReports[Len(results) + 1]
             Outcome(r) == [kind |-> IF r.fallbackUsed THEN "fallback" ELSE "oracle",
                            similarityScore |-> r.similarityScore]
             Missing == [kind |-> "missing", similarityScore |-> 0]
         IN  similarityLoop_StrictThreshold(photo, nearbyReports, Append(results, Missing))
             \cup UNION {
                 IF r.similarityScore > Threshold
                 THEN {[results |-> Append(results, Outcome(r)),
                        primaryReportId |-> nearbyReport]}
                 ELSE similarityLoop_StrictThreshold(photo, nearbyReports,
                                                     Append(results, Outcome(r)))
                 : r \in compareImages(photo, reports[nearbyReport].photo)}

\* The loop `for (const nearbyReport of nearbyReports)`: the set of ways it
\* can end when `results` holds the outcome of the candidates tried so far.
\* A candidate whose photo file is missing is skipped; a compared candidate
\* with similarityScore >= 80 becomes the primary and ends the loop (break).
RECURSIVE similarityLoop(_, _, _)
similarityLoop(photo, nearbyReports, results) ==
    IF Len(results) = Len(nearbyReports)
    THEN {[results |-> results, primaryReportId |-> NULL]}
    ELSE LET nearbyReport == nearbyReports[Len(results) + 1]
             Outcome(r) == [kind |-> IF r.fallbackUsed THEN "fallback" ELSE "oracle",
                            similarityScore |-> r.similarityScore]
             Missing == [kind |-> "missing", similarityScore |-> 0]
         IN  similarityLoop(photo, nearbyReports, Append(results, Missing))
             \cup UNION {
                 IF r.similarityScore >= Threshold
                 THEN {[results |-> Append(results, Outcome(r)),
                        primaryReportId |-> nearbyReport]}
                 ELSE similarityLoop(photo, nearbyReports, Append(results, Outcome(r)))
                 : r \in compareImages(photo, reports[nearbyReport].photo)}

\* SLA window of the policy table, in clock units.
SlaWindow == 1

\* escalationService.getSlaDeadline(tempReport): created_at + window.
getSlaDeadline(created_at) == created_at + SlaWindow

\* POST /report from the arrival of the request to the end of the similarity
\* loop.  analyzeImage, compareImages and the blockchain call are awaited on
\* the way; they read the request, the rows findNearbyReports returned and
\* the photo files, nothing another handler writes, so the store is read at
\* one point only: the db.all of findNearbyReports.
Submit(s, loc, photo) ==
    /\ Arrives(s)
    /\ \E q \in findNearbyReports(loc, NULL) :
       \E o \in similarityLoop(photo, q, <<>>) :
          subs' = [subs EXCEPT ![s] =
                      [pc |-> "insert", loc |-> loc, photo |-> photo,
                       nearbyReports |-> q, results |-> o.results,
                       primaryReportId |-> o.primaryReportId,
                       reportId |-> NULL, slaDeadline |-> getSlaDeadline(now),
                       http |-> 0]]
    /\ UNCHANGED <<reports, now, oracle, sched>>

\* The row of the INSERT with duplicate_count starting at 0.
NewRow_CountFromZero(s) ==
    [loc                 |-> subs[s].loc,
     photo               |-> subs[s].photo,
     status              |-> "pending",
     is_primary          |-> subs[s].primaryReportId = NULL,
     duplicate_of        |-> subs[s].primaryReportId,
     duplicate_count     |-> 0,
     merged_reports      |-> <<>>,
     created_at          |-> now,
     sla_deadline        |-> subs[s].slaDeadline,
     escalated           |-> FALSE,
     escalation_notified |-> FALSE]

\* The values of the INSERT: status 'pending', is_primary 0 with duplicate_of
\* for a duplicate, duplicate_count 1 and is_primary 1 for a primary; the
\* columns left out take their defaults (duplicate_count 1, merged_reports
\* NULL, created_at CURRENT_TIMESTAMP, escalated FALSE).
NewRow(s) ==
    [loc                 |-> subs[s].loc,
     photo               |-> subs[s].photo,
     status              |-> "pending",
     is_primary          |-> subs[s].primaryReportId = NULL,
     duplicate_of        |-> subs[s].primaryReportId,
     duplicate_count     |-> 1,
     merged_reports      |-> <<>>,
     created_at          |-> now,
     sla_deadline        |-> subs[s].slaDeadline,
     escalated           |-> FALSE,
     escalation_notified |-> FALSE]

\* db.run(INSERT INTO reports ...) and its callback.
Insert(s) ==
    /\ subs[s].pc = "insert"
    /\ \/ /\ reports' = Append(reports, NewRow(s))
          /\ subs' = [subs EXCEPT ![s] =
                IF subs[s].primaryReportId = NULL
                THEN Responded(201)
                ELSE [@ EXCEPT !.reportId = Len(reports) + 1, !.pc = "update"]]
       \/ \* err: 'Failed to save report'
          /\ subs' = [subs EXCEPT ![s] = Responded(500)]
          /\ UNCHANGED reports
    /\ UNCHANGED <<now, oracle, sched>>

\* The UPDATE inserting the new id at '$[0]', the head of the list.
updatePrimaryQuery_Prepends(row, duplicateReportId) ==
    [row EXCEPT
        !.duplicate_count = @ + 1,
        !.merged_reports  = <<duplicateReportId>> \o @]

\* The UPDATE writing the link to the duplicate on the primary as well.
updatePrimaryQuery_SetsDuplicateOf(row, duplicateReportId) ==
    [row EXCEPT
        !.duplicate_count = @ + 1,
        !.merged_reports  = IF @ = <<>> THEN <<duplicateReportId>>
                            ELSE Append(@, duplicateReportId),
        !.duplicate_of    = duplicateReportId]

\* The UPDATE writing the new id over the list instead of appending to it.
updatePrimaryQuery_Overwrite(row, duplicateReportId) ==
    [row EXCEPT
        !.duplicate_count = @ + 1,
        !.merged_reports  = <<duplicateReportId>>]

\* The UPDATE of the primary: duplicate_count + 1 and the CASE on
\* merged_reports, one statement.
updatePrimaryQuery(row, duplicateReportId) ==
    [row EXCEPT
        !.duplicate_count = @ + 1,
        !.merged_reports  = IF @ = <<>> THEN <<duplicateReportId>>
                            ELSE Append(@, duplicateReportId)]

\* db.run(updatePrimaryQuery ...) and its callback: the error is logged and
\* 201 is sent either way.
UpdatePrimary(s) ==
    /\ subs[s].pc = "update"
    /\ \/ reports' = [reports EXCEPT ![subs[s].primaryReportId] =
                          updatePrimaryQuery(@, subs[s].reportId)]
       \/ UNCHANGED reports
    /\ subs' = [subs EXCEPT ![s] = Responded(201)]
    /\ UNCHANGED <<now, oracle, sched>>

\* The PATCH to resolved without escalation_notified = 0 in its UPDATE.
UpdateStatus_KeepsNotified(id, status) ==
    /\ id \in 1..Len(reports)
    /\ status \in Statuses
    /\ reports' = [reports EXCEPT ![id] =
          IF status = "resolved"
          THEN [@ EXCEPT !.status = status, !.escalated = FALSE]
          ELSE [@ EXCEPT !.status = status]]
    /\ UNCHANGED <<subs, now, oracle, sched>>

\* The PATCH computing a new deadline for a report set back to pending.
UpdateStatus_RecomputesDeadline(id, status) ==
    /\ id \in 1..Len(reports)
    /\ status \in Statuses
    /\ reports' = [reports EXCEPT ![id] =
          IF status = "resolved"
          THEN [@ EXCEPT !.status = status, !.escalated = FALSE,
                         !.escalation_notified = FALSE]
          ELSE IF status = "pending"
          THEN [@ EXCEPT !.status = status, !.sla_deadline = getSlaDeadline(now)]
          ELSE [@ EXCEPT !.status = status]]
    /\ UNCHANGED <<subs, now, oracle, sched>>

\* The PATCH clearing the escalation flags on a reset to pending too.
UpdateStatus_PendingClears(id, status) ==
    /\ id \in 1..Len(reports)
    /\ status \in Statuses
    /\ reports' = [reports EXCEPT ![id] =
          IF status \in {"resolved", "pending"}
          THEN [@ EXCEPT !.status = status, !.escalated = FALSE,
                         !.escalation_notified = FALSE]
          ELSE [@ EXCEPT !.status = status]]
    /\ UNCHANGED <<subs, now, oracle, sched>>

\* The PATCH clearing the escalation flags whatever the new status.
UpdateStatus_ClearsAlways(id, status) ==
    /\ id \in 1..Len(reports)
    /\ status \in Statuses
    /\ reports' = [reports EXCEPT ![id] =
          [@ EXCEPT !.status = status, !.escalated = FALSE,
                    !.escalation_notified = FALSE]]
    /\ UNCHANGED <<subs, now, oracle, sched>>

\* PATCH /report/:id with a valid status on an existing row, write succeeds.
UpdateStatus(id, status) ==
    /\ id \in 1..Len(reports)
    /\ status \in Statuses
    /\ reports' = [reports EXCEPT ![id] =
          IF status = "resolved"
          THEN [@ EXCEPT !.status = status, !.escalated = FALSE,
                         !.escalation_notified = FALSE]
          ELSE [@ EXCEPT !.status = status]]
    /\ UNCHANGED <<subs, now, oracle, sched>>

\* The resolution upload with 'WHERE id = ? OR duplicate_of = ?': the
\* duplicates of a resolved primary are resolved with it.
Resolve_CascadesToDuplicates(id) ==
    /\ id \in 1..Len(reports)
    /\ reports' = [j \in 1..Len(reports) |->
          IF j = id \/ reports[j].duplicate_of = id
          THEN [reports[j] EXCEPT !.status = "resolved", !.escalated = FALSE,
                                  !.escalation_notified = FALSE]
          ELSE reports[j]]
    /\ UNCHANGED <<subs, now, oracle, sched>>

\* The resolution upload without status = 'resolved' in its UPDATE.
Resolve_FlagsOnly(id) ==
    /\ id \in 1..Len(reports)
    /\ reports' = [reports EXCEPT ![id] =
          [@ EXCEPT !.escalated = FALSE, !.escalation_notified = FALSE]]
    /\ UNCHANGED <<subs, now, oracle, sched>>

\* The resolution upload putting the report back to pending (as if a failed
\* verification refused the resolution).
Resolve_BackToPending(id) ==
    /\ id \in 1..Len(reports)
    /\ reports' = [reports EXCEPT ![id] =
          [@ EXCEPT !.status = "pending", !.escalated = FALSE,
                    !.escalation_notified = FALSE]]
    /\ UNCHANGED <<subs, now, oracle, sched>>

\* The resolution upload without escalation_notified = 0 in its UPDATE.
Resolve_KeepsNotified(id) ==
    /\ id \in 1..Len(reports)
    /\ reports' = [reports EXCEPT ![id] =
          [@ EXCEPT !.status = "resolved", !.escalated = FALSE]]
    /\ UNCHANGED <<subs, now, oracle, sched>>

\* POST /report/:id/resolve on an existing row, write succeeds (the same
\* core columns are written whether or not verifyResolution succeeded).
Resolve(id) ==
    /\ id \in 1..Len(reports)
    /\ reports' = [reports EXCEPT ![id] =
          [@ EXCEPT !.status = "resolved", !.escalated = FALSE,
                    !.escalation_notified = FALSE]]
    /\ UNCHANGED <<subs, now, oracle, sched>>

Tick ==
    /\ now < MaxTime
    /\ now' = now + 1
    /\ UNCHANGED <<reports, subs, oracle, sched>>

Next ==
    \/ \E s \in Ids : SubmitInvalid(s)
    \/ \E s \in Ids, loc \in Locations, photo \in Photos : Submit(s, loc, photo)
    \/ \E s \in Ids : Insert(s)
    \/ \E s \in Ids : UpdatePrimary(s)
    \/ \E id \in Ids, status \in Statuses : UpdateStatus(id, status)
    \/ \E id \in Ids : Resolve(id)
    \/ Tick

Spec == Init /\ [][Next]_vars

\* ----------------------------------------------------------- retry loops
\* POST /report with every await of an oracle call as a step of its own:
\* analyzeImage, then findNearbyReports, then compareImages per candidate,
\* each call a loop `for (attempt = 1; attempt <= maxRetries; attempt++)`.
maxRetries == 3

\* What one attempt can meet: no API key configured, an answer, an error
\* with status 503, any other error.
AttemptOutcomes == {"nokey", "ok", "503", "error"}
Failures        == {"503", "error"}

\* The catch block with the test of the last attempt left out.
AfterAttempt_NoLastAttempt(attempt, outcome) ==
    IF outcome = "nokey" THEN "fallback"
    ELSE IF outcome = "ok" THEN "answer"
    ELSE IF outcome = "503" /\ attempt < maxRetries THEN "wait"
    ELSE "retry"

\* How the body of the loop leaves attempt number `attempt`: return of the
\* fallback without a key, return of the answer, and in the catch block:
\* 503 before the last attempt waits retryDelay and retries, the last
\* attempt returns the fallback, any other error retries at once.
AfterAttempt(attempt, outcome) ==
    IF outcome = "nokey" THEN "fallback"
    ELSE IF outcome = "ok" THEN "answer"
    ELSE IF outcome = "503" /\ attempt < maxRetries THEN "wait"
    ELSE IF attempt = maxRetries THEN "fallback"
    ELSE "retry"

\* The request passed the checks of photo and coordinates and analyzeImage
\* is called.
Receive(s, loc, photo) ==
    /\ Arrives(s)
    /\ subs' = [subs EXCEPT ![s] = [IdleSub EXCEPT !.pc = "analyze",
                                                  !.loc = loc, !.photo = photo]]
    /\ oracle' = [oracle EXCEPT ![s] =
                     [fn |-> "analyzeImage", attempt |-> 1, waiting |-> FALSE]]
    /\ UNCHANGED <<reports, now, sched>>

\* One attempt of analyzeImage.  Its answer or fallbackAnalysis (which
\* always carries a category and a severity) lets the handler go on to the
\* geo lookup.
AnalyzeAttempt(s, outcome) ==
    /\ subs[s].pc = "analyze"
    /\ ~oracle[s].waiting
    /\ LET after == AfterAttempt(oracle[s].attempt, outcome)
       IN  \/ /\ after \in {"answer", "fallback"}
              /\ subs' = [subs EXCEPT ![s].pc = "lookup"]
              /\ oracle' = [oracle EXCEPT ![s] = NoCall]
           \/ /\ after = "wait"
              /\ oracle' = [oracle EXCEPT ![s].waiting = TRUE]
              /\ UNCHANGED subs
           \/ /\ after = "retry"
              /\ oracle' = [oracle EXCEPT ![s].attempt = @ + 1]
              /\ UNCHANGED subs
    /\ UNCHANGED <<reports, now, sched>>

\* setTimeout(resolve, retryDelay) fires: the loop goes to its next attempt.
RetryTimer(s) ==
    /\ oracle[s].waiting
    /\ oracle' = [oracle EXCEPT ![s].waiting = FALSE, ![s].attempt = @ + 1]
    /\ UNCHANGED <<reports, subs, now, sched>>

\* await aiService.findNearbyReports(...): without candidates the loop is
\* not entered.
Lookup(s) ==
    /\ subs[s].pc = "lookup"
    /\ \E q \in findNearbyReports(subs[s].loc, NULL) :
          /\ subs' = [subs EXCEPT ![s].nearbyReports = q,
                                  ![s].slaDeadline = IF q = <<>> THEN getSlaDeadline(now) ELSE @,
                                  ![s].pc = IF q = <<>> THEN "insert" ELSE "compare"]
          /\ oracle' = [oracle EXCEPT ![s] =
                IF q = <<>> THEN NoCall
                ELSE [fn |-> "compareImages", attempt |-> 1, waiting |-> FALSE]]
    /\ UNCHANGED <<reports, now, sched>>

\* The loop body leaving the loop at a candidate whose photo is missing.
LoopBody_MissingBreaks(s, r) ==
    LET results      == Append(subs[s].results, r)
        nearbyReport == subs[s].nearbyReports[Len(subs[s].results) + 1]
        match        == r.kind # "missing" /\ r.similarityScore >= Threshold
        more         == /\ ~match
                        /\ r.kind # "missing"
                        /\ Len(results) < Len(subs[s].nearbyReports)
    IN  /\ subs' = [subs EXCEPT ![s].results = results,
                                ![s].primaryReportId = IF match THEN nearbyReport ELSE NULL,
                                ![s].slaDeadline = IF more THEN @ ELSE getSlaDeadline(now),
                                ![s].pc = IF more THEN "compare" ELSE "insert"]
        /\ oracle' = [oracle EXCEPT ![s] =
              IF more THEN [fn |-> "compareImages", attempt |-> 1, waiting |-> FALSE]
              ELSE NoCall]

\* The body of the similarity loop once the candidate's outcome r is known:
\* a score >= 80 takes the candidate and breaks, otherwise the next
\* candidate is tried or the loop ends.
LoopBody(s, r) ==
    LET results      == Append(subs[s].results, r)
        nearbyReport == subs[s].nearbyReports[Len(subs[s].results) + 1]
        match        == r.kind # "missing" /\ r.similarityScore >= Threshold
        more         == ~match /\ Len(results) < Len(subs[s].nearbyReports)
    IN  /\ subs' = [subs EXCEPT ![s].results = results,
                                ![s].primaryReportId = IF match THEN nearbyReport ELSE NULL,
                                ![s].slaDeadline = IF more THEN @ ELSE getSlaDeadline(now),
                                ![s].pc = IF more THEN "compare" ELSE "insert"]
        /\ oracle' = [oracle EXCEPT ![s] =
              IF more THEN [fn |-> "compareImages", attempt |-> 1, waiting |-> FALSE]
              ELSE NoCall]

\* The photo file of the candidate is not on disk: the candidate is skipped
\* without a call of compareImages.
SkipMissing(s) ==
    /\ subs[s].pc = "compare"
    /\ oracle[s].attempt = 1 /\ ~oracle[s].waiting
    /\ LoopBody(s, [kind |-> "missing", similarityScore |-> 0])
    /\ UNCHANGED <<reports, now, sched>>

\* One attempt of compareImages on the current candidate.
CompareAttempt(s, outcome) ==
    /\ subs[s].pc = "compare"
    /\ ~oracle[s].waiting
    /\ LET after        == AfterAttempt(oracle[s].attempt, outcome)
           nearbyReport == subs[s].nearbyReports[Len(subs[s].results) + 1]
           other        == reports[nearbyReport].photo
       IN  \/ /\ after = "answer"
              /\ \E sc \in OracleScores(subs[s].photo, other) :
                    LoopBody(s, [kind |-> "oracle", similarityScore |-> sc])
           \/ /\ after = "fallback"
              /\ LoopBody(s, [kind |-> "fallback", similarityScore |->
                      fallbackImageSimilarity(subs[s].photo, other).similarityScore])
           \/ /\ after = "wait"
              /\ oracle' = [oracle EXCEPT ![s].waiting = TRUE]
              /\ UNCHANGED subs
           \/ /\ after = "retry"
              /\ oracle' = [oracle EXCEPT ![s].attempt = @ + 1]
              /\ UNCHANGED subs
    /\ UNCHANGED <<reports, now, sched>>

\* The INSERT when the store works.
InsertOk(s) == Insert(s) /\ Len(reports') = Len(reports) + 1

\* Every attempt of every oracle call fails and the store works.
NextOutage ==
    \/ \E s \in Ids, loc \in Locations, photo \in Photos : Receive(s, loc, photo)
    \/ \E s \in Ids, outcome \in Failures : AnalyzeAttempt(s, outcome)
    \/ \E s \in Ids : RetryTimer(s)
    \/ \E s \in Ids : Lookup(s)
    \/ \E s \in Ids : SkipMissing(s)
    \/ \E s \in Ids, outcome \in Failures : CompareAttempt(s, outcome)
    \/ \E s \in Ids : InsertOk(s)

\* The event loop runs every callback that is ready: an attempt ends with
\* its error, a timer fires, a query calls back.
FairOutage ==
    /\ \A s \in Ids : WF_vars(\E outcome \in Failures : AnalyzeAttempt(s, outcome))
    /\ \A s \in Ids : WF_vars(RetryTimer(s))
    /\ \A s \in Ids : WF_vars(Lookup(s))
    /\ \A s \in Ids : WF_vars(\E outcome \in Failures : CompareAttempt(s, outcome))
    /\ \A s \in Ids : WF_vars(InsertOk(s))

SpecOutage == Init /\ [][NextOutage]_vars /\ FairOutage

\* The same handlers with an oracle that may answer, answer with an error
\* of either kind, or have no key configured; the INSERT works.
NextOracle ==
    \/ \E s \in Ids, loc \in Locations, photo \in Photos : Receive(s, loc, photo)
    \/ \E s \in Ids, outcome \in AttemptOutcomes : AnalyzeAttempt(s, outcome)
    \/ \E s \in Ids : RetryTimer(s)
    \/ \E s \in Ids : Lookup(s)
    \/ \E s \in Ids : SkipMissing(s)
    \/ \E s \in Ids, outcome \in AttemptOutcomes : CompareAttempt(s, outcome)
    \/ \E s \in Ids : InsertOk(s)
    \/ \E s \in Ids : UpdatePrimary(s)

SpecOracle == Init /\ [][NextOracle]_vars

\* -------------------------------------------------- escalation scheduler
\* escalationService.js (started by server.js with a period of 30 minutes),
\* after sections 4.4, 5 and 6 of the design: a sweep asks the store for the
\* open reports past their deadline, marks each of them escalated, then
\* notifies every report that is escalated and not yet notified and marks
\* it notified once the sink has acknowledged.  Every store call and every
\* notification is awaited, so requests interleave between them.
\* The query without the test of the escalated flag.
findOpenPastDeadline_AnyFlag(store, t) ==
    {i \in 1..Len(store) :
        /\ store[i].status # "resolved"
        /\ store[i].sla_deadline < t}

findOpenPastDeadline(store, t) ==
    {i \in 1..Len(store) :
        /\ store[i].status # "resolved"
        /\ ~store[i].escalated
        /\ store[i].sla_deadline < t}

updateEscalation(row, escalated, notified) ==
    [row EXCEPT !.escalated = escalated, !.escalation_notified = notified]

findUnnotified(store) ==
    {i \in 1..Len(store) :
        store[i].escalated /\ ~store[i].escalation_notified}

\* Counters of the history stop at 2: "more than once" is all that is asked.
Count(n) == IF n < 2 THEN n + 1 ELSE n

\* A timer that is not armed again once a sweep has thrown.
SweepStart_StopsAfterFailure(w) ==
    /\ sweeps[w].pc = "idle"
    /\ logged = 0
    /\ sweeps' = [sweeps EXCEPT ![w] =
          [pc |-> "escalate", at |-> now, queue |-> findOpenPastDeadline(reports, now)]]
    /\ UNCHANGED <<reports, subs, now, oracle, escalations, sent, logged>>

\* The timer fires: sweep(now) starts with the query of the overdue reports.
SweepStart(w) ==
    /\ sweeps[w].pc = "idle"
    /\ sweeps' = [sweeps EXCEPT ![w] =
          [pc |-> "escalate", at |-> now, queue |-> findOpenPastDeadline(reports, now)]]
    /\ UNCHANGED <<reports, subs, now, oracle, escalations, sent, logged>>

\* updateEscalation(id, true, false) for one report of the query.  The
\* transition on-time -> escalated fires when the report is open and not
\* escalated at the time of the write.
SweepEscalate(w, id) ==
    /\ sweeps[w].pc = "escalate"
    /\ id \in sweeps[w].queue
    /\ reports' = [reports EXCEPT ![id] = updateEscalation(@, TRUE, FALSE)]
    /\ escalations' = [escalations EXCEPT ![id] =
          IF reports[id].status # "resolved" /\ ~reports[id].escalated
          THEN Count(@) ELSE @]
    /\ sweeps' = [sweeps EXCEPT ![w].queue = @ \ {id}]
    /\ UNCHANGED <<subs, now, oracle, sent, logged>>

\* All overdue reports are marked: the query of the reports to notify.
SweepSelect(w) ==
    /\ sweeps[w].pc = "escalate"
    /\ sweeps[w].queue = {}
    /\ sweeps' = [sweeps EXCEPT ![w].pc = "notify", ![w].queue = findUnnotified(reports)]
    /\ UNCHANGED <<reports, subs, now, oracle, escalations, sent, logged>>

\* The flag written before the sink has answered.
SweepNotify_MarksBeforeAck(w, id, ack) ==
    /\ sweeps[w].pc = "notify"
    /\ id \in sweeps[w].queue
    /\ reports' = [reports EXCEPT ![id] = updateEscalation(@, TRUE, TRUE)]
    /\ sent' = [sent EXCEPT ![id] = IF ack THEN Count(@) ELSE @]
    /\ sweeps' = [sweeps EXCEPT ![w].queue = @ \ {id}]
    /\ UNCHANGED <<subs, now, oracle, escalations, logged>>

\* The sink's failure escaping the loop over the reports to notify.
SweepNotify_AbortsOnFailure(w, id, ack) ==
    /\ sweeps[w].pc = "notify"
    /\ id \in sweeps[w].queue
    /\ IF ack
       THEN /\ reports' = [reports EXCEPT ![id] = updateEscalation(@, TRUE, TRUE)]
            /\ sent' = [sent EXCEPT ![id] = Count(@)]
            /\ sweeps' = [sweeps EXCEPT ![w].queue = @ \ {id}]
       ELSE /\ UNCHANGED <<reports, sent>>
            /\ sweeps' = [sweeps EXCEPT ![w].queue = {}]
    /\ UNCHANGED <<subs, now, oracle, escalations, logged>>

\* notifyEscalation(report): on the acknowledgment updateEscalation(id,
\* true, true); a failure leaves the report as it is for the next sweep.
SweepNotify(w, id, ack) ==
    /\ sweeps[w].pc = "notify"
    /\ id \in sweeps[w].queue
    /\ IF ack
       THEN /\ reports' = [reports EXCEPT ![id] = updateEscalation(@, TRUE, TRUE)]
            /\ sent' = [sent EXCEPT ![id] = Count(@)]
       ELSE UNCHANGED <<reports, sent>>
    /\ sweeps' = [sweeps EXCEPT ![w].queue = @ \ {id}]
    /\ UNCHANGED <<subs, now, oracle, escalations, logged>>

SweepEnd(w) ==
    /\ sweeps[w].pc = "notify"
    /\ sweeps[w].queue = {}
    /\ sweeps' = [sweeps EXCEPT ![w] = IdleSweep]
    /\ UNCHANGED <<reports, subs, now, oracle, escalations, sent, logged>>

\* An abort that marks the reports it did not reach as dealt with.
SweepFail_MarksRest(w) ==
    /\ sweeps[w].pc \in {"escalate", "notify"}
    /\ reports' = [i \in 1..Len(reports) |->
          IF i \in sweeps[w].queue
          THEN [reports[i] EXCEPT !.escalation_notified = TRUE]
          ELSE reports[i]]
    /\ sweeps' = [sweeps EXCEPT ![w] = IdleSweep]
    /\ logged' = Count(logged)
    /\ UNCHANGED <<subs, now, oracle, escalations, sent>>

\* A store call of the sweep throws, or the sweep is cancelled, between two
\* reports: the error is logged and the sweep ends there.  What it wrote
\* for the reports before stays written; the timer stays armed.
SweepFail(w) ==
    /\ sweeps[w].pc \in {"escalate", "notify"}
    /\ sweeps' = [sweeps EXCEPT ![w] = IdleSweep]
    /\ logged' = Count(logged)
    /\ UNCHANGED <<reports, subs, now, oracle, escalations, sent>>

\* sweep(t) run from its query to its end with nothing in between, the sink
\* acknowledging the notifications of the reports in acks and failing the
\* others: the store it leaves and the reports it notified.
sweep(store, t, acks) ==
    LET overdue == findOpenPastDeadline(store, t)
        marked  == [i \in 1..Len(store) |->
                      IF i \in overdue THEN updateEscalation(store[i], TRUE, FALSE)
                      ELSE store[i]]
        toNotify == findUnnotified(marked)
    IN  [store |-> [i \in 1..Len(store) |->
                      IF i \in toNotify \cap acks
                      THEN updateEscalation(marked[i], TRUE, TRUE)
                      ELSE marked[i]],
         escalated    |-> overdue,
         notified     |-> toNotify,
         acknowledged |-> toNotify \cap acks]

\* A primary stored by an earlier submission, one per submission point.
StoredRow(i, created_at) ==
    [loc                 |-> i,
     photo               |-> 1,
     status              |-> "pending",
     is_primary          |-> TRUE,
     duplicate_of        |-> NULL,
     duplicate_count     |-> 1,
     merged_reports      |-> <<>>,
     created_at          |-> created_at,
     sla_deadline        |-> getSlaDeadline(created_at),
     escalated           |-> FALSE,
     escalation_notified |-> FALSE]

\* The scheduler and the admin requests on a store of two open reports,
\* each submitted at the origin of the clock or one unit before it.
InitSweep ==
    /\ \E c \in [1..2 -> {-1, 0}] : reports = [i \in 1..2 |-> StoredRow(i, c[i])]
    /\ subs = [s \in Ids |-> IdleSub]
    /\ now = 0
    /\ oracle = [s \in Ids |-> NoCall]
    /\ sweeps = [w \in Sweepers |-> IdleSweep]
    /\ escalations = [i \in Ids |-> 0]
    /\ sent = [i \in Ids |-> 0]
    /\ logged = 0

NextSweep ==
    \/ \E w \in Sweepers : SweepStart(w)
    \/ \E w \in Sweepers, id \in Ids : SweepEscalate(w, id)
    \/ \E w \in Sweepers : SweepSelect(w)
    \/ \E w \in Sweepers, id \in Ids, ack \in BOOLEAN : SweepNotify(w, id, ack)
    \/ \E w \in Sweepers : SweepEnd(w)
    \/ \E id \in Ids, status \in Statuses : UpdateStatus(id, status)
    \/ \E id \in Ids : Resolve(id)
    \/ Tick

SpecSweep == InitSweep /\ [][NextSweep]_vars

\* The periodic task while the reports stay open: the timer keeps starting
\* sweeps, every awaited store call returns, and the sink, called again and
\* again for a report, does not fail for ever.
NextDelivery ==
    \/ \E w \in Sweepers : SweepStart(w)
    \/ \E w \in Sweepers, id \in Ids : SweepEscalate(w, id)
    \/ \E w \in Sweepers : SweepSelect(w)
    \/ \E w \in Sweepers, id \in Ids, ack \in BOOLEAN : SweepNotify(w, id, ack)
    \/ \E w \in Sweepers : SweepEnd(w)
    \/ \E id \in Ids, status \in {"pending", "verified"} : UpdateStatus(id, status)
    \/ Tick

FairDelivery ==
    /\ \A w \in Sweepers : WF_vars(SweepStart(w))
    /\ \A w \in Sweepers : WF_vars(\E id \in Ids : SweepEscalate(w, id))
    /\ \A w \in Sweepers : WF_vars(SweepSelect(w))
    /\ \A w \in Sweepers : WF_vars(\E id \in Ids, ack \in BOOLEAN : SweepNotify(w, id, ack))
    /\ \A w \in Sweepers : WF_vars(SweepEnd(w))
    /\ \A w \in Sweepers, id \in Ids : SF_vars(SweepNotify(w, id, TRUE))

SpecDelivery == InitSweep /\ [][NextDelivery]_vars /\ FairDelivery

\* The scheduler and the admin requests, with sweeps that can be cut short.
NextAbort ==
    \/ NextSweep
    \/ \E w \in Sweepers : SweepFail(w)

SpecAbort == InitSweep /\ [][NextAbort]_vars

\* The periodic task on its own: the timer fires every period whatever
\* became of the sweep before, and every awaited call of a sweep returns
\* or throws.
NextTimer ==
    \/ \E w \in Sweepers : SweepStart(w)
    \/ \E w \in Sweepers, id \in Ids : SweepEscalate(w, id)
    \/ \E w \in Sweepers : SweepSelect(w)
    \/ \E w \in Sweepers, id \in Ids, ack \in BOOLEAN : SweepNotify(w, id, ack)
    \/ \E w \in Sweepers : SweepEnd(w)
    \/ \E w \in Sweepers : SweepFail(w)
    \/ Tick

FairTimer ==
    /\ \A w \in Sweepers : WF_vars(SweepStart(w))
    /\ \A w \in Sweepers : WF_vars(\E id \in Ids : SweepEscalate(w, id))
    /\ \A w \in Sweepers : WF_vars(SweepSelect(w))
    /\ \A w \in Sweepers : WF_vars(\E id \in Ids, ack \in BOOLEAN : SweepNotify(w, id, ack))
    /\ \A w \in Sweepers : WF_vars(SweepEnd(w))

SpecTimer == InitSweep /\ [][NextTimer]_vars /\ FairTimer

\* The scheduler on a store that holds a cluster: report 1 a primary and
\* report 2 its duplicate, stored with the primary or after it, each with
\* the deadline its own INSERT gave it.
InitCluster ==
    /\ \E c \in [1..2 -> {-1, 0}] :
          /\ c[1] <= c[2]
          /\ reports = <<[StoredRow(1, c[1]) EXCEPT !.duplicate_count = 2,
                                                    !.merged_reports = <<2>>],
                         [StoredRow(1, c[2]) EXCEPT !.is_primary = FALSE,
                                                    !.duplicate_of = 1]>>
    /\ subs = [s \in Ids |-> IdleSub]
    /\ now = 0
    /\ oracle = [s \in Ids |-> NoCall]
    /\ sweeps = [w \in Sweepers |-> IdleSweep]
    /\ escalations = [i \in Ids |-> 0]
    /\ sent = [i \in Ids |-> 0]
    /\ logged = 0

SpecCluster == InitCluster /\ [][NextSweep]_vars

\* Two sweeps in flight at once: a sweep still awaiting the sink when the
\* next timer tick starts another one.  No lock is held across the store
\* calls or the sink call, so their steps interleave freely.
MaxOverlap == 2

Overlapping == 1..MaxOverlap

InitOverlap ==
    /\ \E c \in [1..2 -> {-1, 0}] : reports = [i \in 1..2 |-> StoredRow(i, c[i])]
    /\ subs = [s \in Ids |-> IdleSub]
    /\ now = 0
    /\ oracle = [s \in Ids |-> NoCall]
    /\ sweeps = [w \in Overlapping |-> IdleSweep]
    /\ escalations = [i \in Ids |-> 0]
    /\ sent = [i \in Ids |-> 0]
    /\ logged = 0

NextOverlap ==
    \/ \E w \in Overlapping : SweepStart(w)
    \/ \E w \in Overlapping, id \in Ids : SweepEscalate(w, id)
    \/ \E w \in Overlapping : SweepSelect(w)
    \/ \E w \in Overlapping, id \in Ids, ack \in BOOLEAN : SweepNotify(w, id, ack)
    \/ \E w \in Overlapping : SweepEnd(w)
    \/ Tick

SpecOverlap == InitOverlap /\ [][NextOverlap]_vars

\* ------------------------------------------------------ input validation
\* POST /report alone, the client sending any of the three points.
NextInput ==
    \/ \E s \in Ids : SubmitInvalid(s)
    \/ \E s \in Ids, loc \in Coordinates, photo \in Photos : Submit(s, loc, photo)
    \/ \E s \in Ids : Insert(s)
    \/ \E s \in Ids : UpdatePrimary(s)

SpecInput == Init /\ [][NextInput]_vars

\* ------------------------------------------------------------ admin API
\* What a client can send as :id and as status: ids with and without a row,
\* the three statuses, an unknown one and none.
PatchIds      == 0..MaxSub
PatchStatuses == Statuses \cup {"closed", ""}

\* Store calls of the handler that can fail: none, the SELECT, the UPDATE.
Faults == {"none", "get", "run"}

\* The PATCH without the test of the status.
patchReport_NoValidation(store, id, status, fault) ==
    IF fault = "get" THEN [http |-> 500, store |-> store]
    ELSE IF id \notin 1..Len(store) THEN [http |-> 404, store |-> store]
    ELSE IF fault = "run" THEN [http |-> 500, store |-> store]
    ELSE [http  |-> 200,
          store |-> [store EXCEPT ![id] =
             IF status = "resolved"
             THEN [@ EXCEPT !.status = status, !.escalated = FALSE,
                            !.escalation_notified = FALSE]
             ELSE [@ EXCEPT !.status = status]]]

\* PATCH /report/:id as a whole: 400 for a status that is missing or not one
\* of the three, then db.get (500 on error, 404 without a row), then the
\* UPDATE (500 on error).  The response and the store it leaves.
patchReport(store, id, status, fault) ==
    IF status \notin {"pending", "verified", "resolved"}
    THEN [http |-> 400, store |-> store]
    ELSE IF fault = "get" THEN [http |-> 500, store |-> store]
    ELSE IF id \notin 1..Len(store) THEN [http |-> 404, store |-> store]
    ELSE IF fault = "run" THEN [http |-> 500, store |-> store]
    ELSE [http  |-> 200,
          store |-> [store EXCEPT ![id] =
             IF status = "resolved"
             THEN [@ EXCEPT !.status = status, !.escalated = FALSE,
                            !.escalation_notified = FALSE]
             ELSE [@ EXCEPT !.status = status]]]

Patch(id, status, fault) ==
    /\ reports' = patchReport(reports, id, status, fault).store
    /\ UNCHANGED <<subs, now, oracle, sched>>

\* Submissions and PATCH requests of any kind.
NextAdmin ==
    \/ \E s \in Ids, loc \in Locations, photo \in Photos : Submit(s, loc, photo)
    \/ \E s \in Ids : Insert(s)
    \/ \E s \in Ids : UpdatePrimary(s)
    \/ \E id \in PatchIds, status \in PatchStatuses, fault \in Faults :
          Patch(id, status, fault)

SpecAdmin == Init /\ [][NextAdmin]_vars

\* ------------------------------------------------------------ vocabulary
RowIds        == 1..Len(reports)
Primaries     == {i \in RowIds : reports[i].is_primary}
DuplicatesOf(p) == {d \in RowIds : reports[d].duplicate_of = p}
IsOpen(i)     == reports[i].status \in {"pending", "verified"}
InFlight      == {s \in Ids : subs[s].pc \in {"insert", "update"}}
InSeq(x, q)   == \E k \in 1..Len(q) : q[k] = x

\* Handler s stores its row in this step (the INSERT succeeded).
Stores(s) ==
    /\ subs[s].pc = "insert"
    /\ subs'[s].pc # "insert"
    /\ Len(reports') = Len(reports) + 1

\* Handler s gets the callback of its UPDATE of the primary in this step.
Merges(s) ==
    /\ subs[s].pc = "update"
    /\ subs'[s].pc = "done"

\* ----------------------------------------------------------------- C1
\* C1: in every reachable state every primary report has
\* duplicate_count = 1 + number of entries of merged_reports.
C1_CountMatchesMergedList ==
    \A p \in Primaries :
        reports[p].duplicate_count = 1 + Len(reports[p].merged_reports)

\* Two duplicates have been merged into one primary.
C1_Witness ==
    \E p \in Primaries :
        /\ reports[p].duplicate_count = 3
        /\ Len(reports[p].merged_reports) = 2

\* ----------------------------------------------------------------- C2
\* C2: in every reachable state, also between the insert of a duplicate row
\* and the update of its primary and after a failed update, the
\* duplicate_count of every primary is 1 + the number of stored rows whose
\* duplicate_of is that primary.
C2_CountMatchesDuplicateRows ==
    \A p \in Primaries :
        reports[p].duplicate_count = 1 + Cardinality(DuplicatesOf(p))

\* ----------------------------------------------------------------- C4
\* C4: every stored report is a primary (is_primary, duplicate_of NULL) or a
\* duplicate (not is_primary, duplicate_of the id of a stored primary); no
\* duplicate_of refers to a duplicate.
C4_PrimaryOrDuplicateOfPrimary ==
    \A i \in RowIds :
        \/ reports[i].is_primary /\ reports[i].duplicate_of = NULL
        \/ /\ ~reports[i].is_primary
           /\ reports[i].duplicate_of \in RowIds
           /\ reports[reports[i].duplicate_of].is_primary

\* A duplicate was stored although an older duplicate with the same photo
\* lies at the same coordinates.
C4_Witness ==
    \E d, e \in RowIds :
        /\ d < e
        /\ ~reports[d].is_primary /\ ~reports[e].is_primary
        /\ reports[d].loc = reports[e].loc
        /\ reports[d].photo = reports[e].photo
        /\ reports[d].status = "pending"

\* ----------------------------------------------------------------- C5
\* C5: the report chosen as the primary of a submission, and every candidate
\* the submission considers, lies within 50 m of the submitted coordinates;
\* so does the primary of every stored duplicate.
C5_PrimaryWithinRadius ==
    /\ \A s \in InFlight :
          /\ \A k \in 1..Len(subs[s].nearbyReports) :
                calculateDistance(subs[s].loc,
                                  reports[subs[s].nearbyReports[k]].loc) <= radiusMeters
          /\ subs[s].primaryReportId # NULL =>
                calculateDistance(subs[s].loc,
                                  reports[subs[s].primaryReportId].loc) <= radiusMeters
    /\ \A d \in RowIds :
          reports[d].duplicate_of # NULL =>
              calculateDistance(reports[d].loc,
                                reports[reports[d].duplicate_of].loc) <= radiusMeters

\* A submission took an older primary at its own coordinates while a more
\* recent open primary with the identical photo lies outside the radius.
C5_Witness ==
    \E s \in InFlight : \E q \in Primaries :
        /\ subs[s].primaryReportId # NULL
        /\ q > subs[s].primaryReportId
        /\ reports[q].created_at > reports[subs[s].primaryReportId].created_at
        /\ IsOpen(q)
        /\ reports[q].photo = subs[s].photo
        /\ calculateDistance(subs[s].loc, reports[q].loc) > radiusMeters

\* ----------------------------------------------------------------- C3
\* C3: when two or more submissions that matched the same primary run
\* concurrently, no merge update is lost: the update of each of them raises
\* the primary's duplicate_count by exactly one and leaves the new report's
\* id in merged_reports.
C3_NoLostMergeUpdate ==
    [][\A s \in Ids :
          (/\ Merges(s)
           /\ \E t \in InFlight \ {s} :
                 subs[t].primaryReportId = subs[s].primaryReportId)
          => LET p == subs[s].primaryReportId
             IN  /\ reports'[p].duplicate_count = reports[p].duplicate_count + 1
                 /\ InSeq(subs[s].reportId, reports'[p].merged_reports)]_vars

\* ----------------------------------------------------------------- C6
\* Handler s ends its similarity loop in this step.
Decides(s) ==
    /\ subs[s].pc = "idle"
    /\ subs'[s].pc = "insert"

\* At the time of the geo lookup of s, row a is an open primary at the
\* submitted coordinates with the identical photo (the oracle scores 100),
\* and whenever the loop of s reaches a, the oracle itself answers.
IdenticalOpenPrimary(s, a) ==
    /\ a \in Primaries
    /\ IsOpen(a)
    /\ reports[a].loc = subs'[s].loc
    /\ reports[a].photo = subs'[s].photo
    /\ OracleScores(subs'[s].photo, reports[a].photo) = {100}
    /\ \A k \in 1..Len(subs'[s].results) :
          subs'[s].nearbyReports[k] = a => subs'[s].results[k].kind = "oracle"

\* Row a is the only open primary with that photo at those coordinates.
OnlyIdentical(s, a) ==
    \A b \in Primaries \ {a} :
        ~(/\ IsOpen(b)
          /\ reports[b].loc = subs'[s].loc
          /\ reports[b].photo = subs'[s].photo)

\* The row a handler stores carries the classification its loop reached.
StoresItsClassification ==
    \A s \in Ids :
        Stores(s) =>
            /\ reports'[Len(reports')].duplicate_of = subs[s].primaryReportId
            /\ reports'[Len(reports')].is_primary = (subs[s].primaryReportId = NULL)

\* C6 as stated: a submission at the coordinates of a stored open primary,
\* with a photo the oracle scores 100 against it, is stored as a duplicate of
\* that primary.
C6_DuplicateOfTheFirst ==
    [][/\ \A s \in Ids : \A a \in RowIds :
             Decides(s) /\ IdenticalOpenPrimary(s, a) /\ OnlyIdentical(s, a)
                 => subs'[s].primaryReportId = a
       /\ StoresItsClassification]_vars

\* C6 as amended: such a submission is stored as a duplicate, of that
\* primary or of a candidate the geo lookup returned before it (created no
\* earlier) that was accepted first.
C6_DuplicateOfFirstOrEarlierCandidate ==
    [][/\ \A s \in Ids : \A a \in RowIds :
             Decides(s) /\ IdenticalOpenPrimary(s, a)
                 => LET p == subs'[s].primaryReportId
                        q == subs'[s].nearbyReports
                    IN  /\ p # NULL
                        /\ \/ p = a
                           \/ /\ reports[p].created_at >= reports[a].created_at
                              /\ \E i, j \in 1..Len(q) :
                                    i < j /\ q[i] = p /\ q[j] = a
       /\ StoresItsClassification]_vars

\* A duplicate of an identical primary at the same coordinates has been
\* stored, the oracle having answered for it.
C6_Witness ==
    \E s \in Ids :
        /\ subs[s].pc = "update"
        /\ LET a == subs[s].primaryReportId
           IN  /\ reports[a].loc = subs[s].loc
               /\ reports[a].photo = subs[s].photo
               /\ subs[s].results[Len(subs[s].results)] =
                      [kind |-> "oracle", similarityScore |-> 100]
               /\ reports[subs[s].reportId].duplicate_of = a

\* ----------------------------------------------------------------- C7
\* C7: when a submission matched primary A, the new report B is stored with
\* is_primary false and duplicate_of A, and the update raises A's
\* duplicate_count by exactly 1 and appends B's id at the end of A's
\* merged_reports (count 2 and <<B>> for a primary without duplicates).
C7_MatchMergesIntoPrimary ==
    [][\A s \in Ids :
          Merges(s) =>
             LET a == subs[s].primaryReportId
                 b == subs[s].reportId
             IN  /\ ~reports[b].is_primary
                 /\ reports[b].duplicate_of = a
                 /\ reports'[a].duplicate_count = reports[a].duplicate_count + 1
                 /\ reports'[a].merged_reports = Append(reports[a].merged_reports, b)
                 /\ reports[a].duplicate_count = 1 =>
                       /\ reports'[a].duplicate_count = 2
                       /\ reports'[a].merged_reports = <<b>>]_vars

\* ----------------------------------------------------------------- C8
\* C8: when the geo lookup returns no candidate, the oracle is not called
\* and the report is stored as a primary with duplicate_count 1 and no
\* merged reports.
C8_NoCandidateStoresPrimary ==
    [][\A s \in Ids :
          /\ Decides(s) /\ subs'[s].nearbyReports = <<>> =>
                /\ subs'[s].results = <<>>
                /\ subs'[s].primaryReportId = NULL
          /\ Stores(s) /\ subs[s].nearbyReports = <<>> =>
                LET row == reports'[Len(reports')]
                IN  /\ row.is_primary
                    /\ row.duplicate_of = NULL
                    /\ row.duplicate_count = 1
                    /\ row.merged_reports = <<>>
                    /\ subs'[s].http = 201]_vars

\* Two primaries with the identical photo, one at each submission point:
\* the second was stored as a primary although the oracle scores 100.
C8_Witness ==
    /\ Len(reports) = 2
    /\ reports[1].is_primary /\ reports[2].is_primary
    /\ reports[1].loc # reports[2].loc
    /\ reports[1].photo = reports[2].photo
    /\ IsOpen(1)
    /\ reports[2].created_at > reports[1].created_at
    /\ reports[2].duplicate_count = 1
    /\ reports[2].merged_reports = <<>>

C10_MergeTargetIsOpenPrimary ==
    [][\A s \in Ids :
          \/ Stores(s) /\ subs[s].primaryReportId # NULL
          \/ Merges(s) /\ reports' # reports
          => /\ reports[subs[s].primaryReportId].is_primary
             /\ IsOpen(subs[s].primaryReportId)]_vars

\* ---------------------------------------------------------------- C11
\* C11: when the oracle fails for one candidate, that candidate counts as a
\* non-match and the loop goes on with the next one: a later candidate with
\* a score >= 80 is still accepted, and the submission is stored, not failed.
C11_OracleFailureIsNonMatch ==
    [][\A s \in Ids :
          /\ Decides(s) =>
                LET q == subs'[s].nearbyReports
                    r == subs'[s].results
                IN  \A k \in 1..Len(r) :
                       r[k].kind = "fallback" =>
                          /\ r[k].similarityScore < Threshold
                          /\ subs'[s].primaryReportId # q[k]
                          /\ k < Len(q) => Len(r) > k
          /\ Stores(s) /\ (\E k \in 1..Len(subs[s].results) :
                              subs[s].results[k].kind = "fallback")
                => subs'[s].http # 500]_vars

\* The oracle failed for the first candidate, the second was accepted with a
\* score >= 80, and the report was stored as its duplicate.
C11_Witness ==
    \E s \in Ids :
        /\ subs[s].pc = "update"
        /\ Len(subs[s].results) = 2
        /\ subs[s].results[1].kind = "fallback"
        /\ subs[s].results[2].kind = "oracle"
        /\ subs[s].results[2].similarityScore >= Threshold
        /\ subs[s].primaryReportId = subs[s].nearbyReports[2]
        /\ reports[subs[s].reportId].duplicate_of = subs[s].nearbyReports[2]

\* ---------------------------------------------------------------- C13
\* C13: a failed store write is surfaced: when the INSERT of the report or
\* the UPDATE of the primary fails, the caller does not get a success
\* response.
C13_WriteFailureSurfaced ==
    [][\A s \in Ids :
          /\ subs[s].pc \in {"insert", "update"}
          /\ subs'[s].pc = "done"
          /\ reports' = reports
          => subs'[s].http # 201]_vars

\* ---------------------------------------------------------------- C12
\* C12: when every oracle call fails and the store works, every submission
\* terminates: analyzeImage and each compareImages return after at most 3
\* attempts, and the submission ends with its report stored and classified
\* (as a primary, no comparison having succeeded), answered 201.
C12_TerminatesUnderOutage ==
    /\ [](\A s \in Ids : oracle[s].attempt <= maxRetries)
    /\ [][\A s \in Ids :
             Stores(s) =>
                /\ reports'[Len(reports')].is_primary
                /\ reports'[Len(reports')].duplicate_of = NULL
                /\ subs'[s] = Responded(201)]_vars
    /\ \A s \in Ids :
          (subs[s].pc # "idle") ~> (subs[s].pc = "done" /\ subs[s].http = 201)

\* A report was stored as a third primary at the same coordinates after all
\* attempts of its analysis and of the comparison with both candidates
\* failed.
C12_Witness ==
    /\ Len(reports) = 3
    /\ \A i \in 1..3 : reports[i].is_primary /\ reports[i].loc = reports[1].loc
    /\ \A s \in Ids : subs[s] = Responded(201)

\* ---------------------------------------------------------------- C14
\* C14: a submission with a latitude outside [-90, 90] or a longitude
\* outside [-180, 180] (or without triage category or severity) is rejected
\* before any store mutation: no row with such coordinates is ever stored.
C14_InvalidInputRejected ==
    \A i \in RowIds :
        /\ Latitude[reports[i].loc]  \in -9000000..9000000
        /\ Longitude[reports[i].loc] \in -18000000..18000000

\* ---------------------------------------------------------------- C15
\* C15: in every reachable state, under any interleaving of sweeps, status
\* updates and resolutions, a report with escalated = true has a status
\* other than resolved.
C15_EscalatedIsNotResolved ==
    \A i \in RowIds : reports[i].escalated => reports[i].status # "resolved"

\* ---------------------------------------------------------------- C16
\* C16: every operation that sets a report's status to resolved (PATCH with
\* status resolved, resolution upload with or without successful
\* verification) sets escalated and escalation_notified of that report to
\* false in the same write.
C16_ResolutionClearsEscalation ==
    [][\A i \in RowIds :
          \/ reports[i].status # "resolved" /\ reports'[i].status = "resolved"
          \/ UpdateStatus(i, "resolved")
          \/ Resolve(i)
          => /\ reports'[i].status = "resolved"
             /\ ~reports'[i].escalated
             /\ ~reports'[i].escalation_notified]_vars

\* A report that was escalated and notified is resolved with both flags
\* cleared, while the other report is still escalated and notified.
C16_Witness ==
    \E i, j \in RowIds :
        /\ escalations[i] >= 1 /\ sent[i] >= 1
        /\ reports[i].status = "resolved"
        /\ ~reports[i].escalated /\ ~reports[i].escalation_notified
        /\ reports[j].escalated /\ reports[j].escalation_notified

\* ---------------------------------------------------------------- C17
\* C17: escalation is monotonic: once a report has escalated = true and a
\* status other than resolved, escalated stays true in every later state
\* until the status becomes resolved.
C17_EscalationMonotonic ==
    [][\A i \in RowIds :
          /\ reports[i].escalated
          /\ reports[i].status # "resolved"
          /\ reports'[i].status # "resolved"
          => reports'[i].escalated]_vars

\* An escalated and notified report whose status was set to verified and
\* which is still escalated.
C17_Witness ==
    \E i \in RowIds :
        /\ reports[i].status = "verified"
        /\ reports[i].escalated
        /\ reports[i].escalation_notified
        /\ sweeps[1].pc = "idle"

C19_ResolvedIsTerminal ==
    [][\A i \in RowIds :
          reports[i].status = "resolved" => reports'[i].status = "resolved"]_vars

\* C19 as amended: resolution is terminal for the scheduler and for the
\* resolution upload; the status of a resolved report is changed back only
\* by a status update (PATCH /report/:id) that names pending or verified,
\* which changes nothing else.
C19_ReopenedOnlyByStatusUpdate ==
    [][\A i \in RowIds :
          reports[i].status = "resolved" /\ reports'[i].status # "resolved"
          => \E status \in {"pending", "verified"} : UpdateStatus(i, status)]_vars

\* A report that was escalated and then resolved is pending again.
C19_Witness ==
    \E i \in RowIds :
        /\ escalations[i] >= 1
        /\ ~reports[i].escalated
        /\ reports[i].status = "pending"

\* ---------------------------------------------------------------- C20
\* C20 as stated: sweep(now) run twice in a row with the same now and no
\* other state change in between notifies in the second call no report
\* beyond those of the first and leaves the store as the first call left it.
C20_SweepTwiceSameStore ==
    \A a1, a2 \in SUBSET RowIds :
        LET first  == sweep(reports, now, a1)
            second == sweep(first.store, now, a2)
        IN  /\ second.notified \subseteq first.notified
            /\ second.store = first.store

\* C20 as amended: the second call escalates nothing and notifies exactly
\* the reports whose notification failed in the first call; when the sink
\* acknowledged every notification of the first call, the second call
\* notifies nobody and leaves the store as the first call left it.
C20_SweepTwiceRetriesFailedOnly ==
    \A a1, a2 \in SUBSET RowIds :
        LET first  == sweep(reports, now, a1)
            second == sweep(first.store, now, a2)
        IN  /\ second.escalated = {}
            /\ second.notified = first.notified \ first.acknowledged
            /\ first.notified \subseteq a1 =>
                  /\ second.notified = {}
                  /\ second.store = first.store

\* No sweep is in progress and a sweep called now escalates and notifies
\* both reports.
C20_Witness ==
    /\ \A w \in Sweepers : sweeps[w].pc = "idle"
    /\ sweep(reports, now, RowIds).escalated = RowIds
    /\ sweep(reports, now, RowIds).acknowledged = RowIds
    /\ Len(reports) = 2

\* ---------------------------------------------------------------- C21
\* C21: under any interleaving of two overlapping sweeps the sink
\* acknowledges at most one notification per escalation of a report, and
\* escalation_notified is set only once the sink has acknowledged.
C21_NoDoubleNotify ==
    \A i \in RowIds :
        /\ sent[i] <= escalations[i]
        /\ reports[i].escalation_notified => sent[i] >= 1

\* ---------------------------------------------------------------- C22
\* C22: escalation_notified becomes true only in the step in which the
\* sink acknowledges; a failed notification leaves it as it was, false; and while
\* sweeps keep running, the report stays open and the sink does not fail
\* for ever, an escalated report is eventually notified.
C22_AtLeastOnceDelivery ==
    /\ [][\A i \in RowIds :
            (~reports[i].escalation_notified /\ reports'[i].escalation_notified)
               => \E w \in Sweepers : SweepNotify(w, i, TRUE)]_vars
    /\ [][\A w \in Sweepers : \A i \in RowIds :
            SweepNotify(w, i, FALSE) =>
               reports'[i].escalation_notified = reports[i].escalation_notified]_vars
    /\ \A i \in 1..2 :
          (reports[i].escalated /\ ~reports[i].escalation_notified)
             ~> reports[i].escalation_notified

\* A finished sweep that left report 2 escalated and not notified, its
\* notification having failed, next to a report the sink acknowledged.
C22_Witness ==
    /\ sweeps[1].pc = "idle"
    /\ reports[2].escalated /\ ~reports[2].escalation_notified
    /\ sent[2] = 0
    /\ reports[1].escalation_notified
    /\ sent[1] = 1

\* ---------------------------------------------------------------- C23
\* C23: a notification failure for one report leaves the sweep in its
\* notification phase with every other selected report still to be
\* notified, and undoes nothing already written for the other reports.
C23_FailureDoesNotBlockOthers ==
    [][\A w \in Sweepers : \A id \in RowIds :
          SweepNotify(w, id, FALSE) =>
             /\ sweeps'[w].pc = "notify"
             /\ sweeps'[w].queue = sweeps[w].queue \ {id}
             /\ reports' = reports]_vars

\* The end of a sweep at time 1 in which the sink failed for report 1 and
\* acknowledged report 2.
C23_Witness ==
    /\ sweeps[1].pc = "notify"
    /\ sweeps[1].queue = {}
    /\ sweeps[1].at = 1
    /\ reports[1].escalated /\ ~reports[1].escalation_notified
    /\ sent[1] = 0
    /\ reports[2].escalated /\ reports[2].escalation_notified
    /\ sent[2] = 1

\* ---------------------------------------------------------------- C24
\* C24: a sweep sets escalated only on reports that are not resolved, not
\* yet escalated and strictly past their deadline at the time of the sweep,
\* and on all of them: a report whose deadline is the time of the sweep or
\* later is left alone.
C24_SweepEscalatesExactlyOverdue ==
    [][/\ \A i \in RowIds :
             (~reports[i].escalated /\ reports'[i].escalated) =>
                /\ reports[i].status # "resolved"
                /\ \E w \in Sweepers :
                      /\ sweeps[w].pc = "escalate"
                      /\ reports[i].sla_deadline < sweeps[w].at
       /\ \A w \in Sweepers :
             SweepStart(w) =>
                sweeps'[w].queue =
                   {i \in RowIds : /\ reports[i].status # "resolved"
                                   /\ ~reports[i].escalated
                                   /\ reports[i].sla_deadline < now}]_vars

\* ---------------------------------------------------------------- C25
\* C25: for a report whose stored created_at is T, the stored sla_deadline
\* is T + the window of the SLA table, exactly.
C25_DeadlineIsCreationPlusWindow ==
    \A i \in RowIds :
        reports[i].sla_deadline = reports[i].created_at + SlaWindow

\* ---------------------------------------------------------------- C26
\* C26: the sla_deadline of a report is set when the report is stored and
\* is changed by no later operation (status update, resolution,
\* merge-counter update, sweep).
C26_DeadlineNeverChanges ==
    [][\A i \in RowIds :
          reports'[i].sla_deadline = reports[i].sla_deadline]_vars

\* A primary stored at time 0 that has since received a duplicate and been
\* resolved, the clock having advanced.
C26_Witness ==
    \E p \in Primaries :
        /\ reports[p].created_at = 0
        /\ now = 1
        /\ reports[p].duplicate_count = 2
        /\ reports[p].status = "resolved"

\* ---------------------------------------------------------------- C27
\* C27: a sweep that failed does not stop the periodic task: after a
\* failure has been logged a sweep starts again, and sweeps start
\* infinitely often.
C27_TimerSurvivesFailure ==
    \A w \in Sweepers :
        /\ []<><<SweepStart(w)>>_vars
        /\ (logged >= 1 /\ sweeps[w].pc = "idle") ~> (sweeps[w].pc = "escalate")

\* A sweep in its notification phase after two sweeps ended with an error.
C27_Witness ==
    /\ logged = 2
    /\ sweeps[1].pc = "notify"
    /\ sweeps[1].queue # {}

C29_StatusUpdateKeepsFlags ==
    [][\A i \in RowIds : \A status \in Statuses :
          UpdateStatus(i, status) =>
             IF status = "resolved"
             THEN ~reports'[i].escalated /\ ~reports'[i].escalation_notified
             ELSE /\ reports'[i].escalated = reports[i].escalated
                  /\ reports'[i].escalation_notified =
                         reports[i].escalation_notified]_vars

\* A report escalated twice, hence resolved and reopened in between, that
\* is pending, escalated and notified.
C29_Witness ==
    \E i \in RowIds :
        /\ escalations[i] = 2
        /\ reports[i].status = "pending"
        /\ reports[i].escalated
        /\ reports[i].escalation_notified

IsPrefix(q, r) ==
    /\ Len(q) <= Len(r)
    /\ \A k \in 1..Len(q) : q[k] = r[k]

\* C31: in every step the merged_reports of a report before the step is an
\* initial segment of its merged_reports after it, its duplicate_count does
\* not decrease, and no id occurs twice in merged_reports.
C31_MergedListAppendOnly ==
    [][\A p \in RowIds :
          /\ IsPrefix(reports[p].merged_reports, reports'[p].merged_reports)
          /\ reports'[p].duplicate_count >= reports[p].duplicate_count
          /\ \A j, k \in 1..Len(reports'[p].merged_reports) :
                j # k => reports'[p].merged_reports[j] # reports'[p].merged_reports[k]]_vars

\* A primary whose list holds its two duplicates in the order in which
\* they were stored.
C31_Witness ==
    \E p \in Primaries :
        /\ reports[p].merged_reports = <<2, 3>>
        /\ reports[2].duplicate_of = p
        /\ reports[3].duplicate_of = p

\* ---------------------------------------------------------------- C32
\* Handler s passes a candidate whose photo file is missing in this step.
Skips(s) ==
    /\ subs[s].pc = "compare"
    /\ Len(subs'[s].results) = Len(subs[s].results) + 1
    /\ subs'[s].results[Len(subs'[s].results)].kind = "missing"

\* C32: a candidate whose photo is missing is passed before any attempt of
\* compareImages on it and counts as a non-match; the loop goes on with the
\* next candidate if there is one; and a report all of whose candidates
\* lacked their photo is stored as a primary.
C32_MissingPhotoIsSkipped ==
    [][\A s \in Ids :
          /\ Skips(s) =>
                /\ oracle[s] = [fn |-> "compareImages", attempt |-> 1, waiting |-> FALSE]
                /\ subs'[s].primaryReportId = NULL
                /\ IF Len(subs'[s].results) < Len(subs[s].nearbyReports)
                   THEN /\ subs'[s].pc = "compare"
                        /\ oracle'[s] = [fn |-> "compareImages", attempt |-> 1,
                                         waiting |-> FALSE]
                   ELSE /\ subs'[s].pc = "insert"
                        /\ oracle'[s] = NoCall
          /\ (/\ Stores(s)
              /\ subs[s].results # <<>>
              /\ \A k \in 1..Len(subs[s].results) : subs[s].results[k].kind = "missing")
                => /\ reports'[Len(reports')].is_primary
                   /\ reports'[Len(reports')].duplicate_of = NULL
                   /\ subs'[s] = Responded(201)]_vars

\* The photo of the first candidate was missing, the second candidate was
\* compared and accepted, and the report was stored as its duplicate.
C32_Witness ==
    \E s \in Ids :
        /\ subs[s].pc = "update"
        /\ Len(subs[s].results) = 2
        /\ subs[s].results[1].kind = "missing"
        /\ subs[s].results[2].kind = "oracle"
        /\ subs[s].primaryReportId = subs[s].nearbyReports[2]
        /\ reports[subs[s].reportId].duplicate_of = subs[s].nearbyReports[2]

\* ---------------------------------------------------------------- C33
\* C33: a call of compareImages makes at most maxRetries attempts, and it
\* goes from one attempt to the next only when the timer of the backoff
\* fires, whatever error ended the earlier attempt.
C33_BackoffBetweenAttempts ==
    [][\A s \in Ids :
          /\ oracle'[s].attempt <= maxRetries
          /\ (/\ oracle[s].fn = "compareImages"
              /\ oracle'[s].fn = "compareImages"
              /\ oracle'[s].attempt = oracle[s].attempt + 1)
                => oracle[s].waiting /\ ~oracle'[s].waiting]_vars

\* ---------------------------------------------------------------- C34
\* C34: every score of the fallback estimator is at most 50 and carries
\* fallbackUsed; no candidate is accepted on a fallback score; and a report
\* for which every candidate got a fallback score is stored as a primary.
C34_FallbackNeverDuplicates ==
    [][/\ \A p, q \in Photos :
             /\ fallbackImageSimilarity(p, q).similarityScore <= 50
             /\ fallbackImageSimilarity(p, q).fallbackUsed
       /\ \A s \in Ids :
             /\ \A k \in 1..Len(subs'[s].results) :
                   subs'[s].results[k].kind = "fallback" =>
                      /\ subs'[s].results[k].similarityScore <= 50
                      /\ subs'[s].primaryReportId # subs'[s].nearbyReports[k]
             /\ (/\ Stores(s)
                 /\ subs[s].results # <<>>
                 /\ \A k \in 1..Len(subs[s].results) :
                       subs[s].results[k].kind = "fallback")
                   => /\ reports'[Len(reports')].is_primary
                      /\ reports'[Len(reports')].duplicate_of = NULL]_vars

\* A handler about to store a primary although its only candidate carries
\* the identical photo: the oracle was unavailable and the estimate was 50.
C34_Witness ==
    \E s \in Ids :
        /\ subs[s].pc = "insert"
        /\ subs[s].results = <<[kind |-> "fallback", similarityScore |-> 50]>>
        /\ reports[subs[s].nearbyReports[1]].photo = subs[s].photo
        /\ subs[s].primaryReportId = NULL

\* ---------------------------------------------------------------- C35
\* C35: of two submissions with the same photo at the same coordinates, with
\* no earlier report nearby, handled concurrently, only one is stored as a
\* primary: a handler whose geo lookup found no candidate never stores its
\* primary row when another primary with that photo at those coordinates
\* has been stored since.
C35_NoTwinPrimaries ==
    [][\A s \in Ids :
          (Stores(s) /\ subs[s].nearbyReports = <<>>)
             => ~\E p \in Primaries :
                    /\ reports[p].loc = subs[s].loc
                    /\ reports[p].photo = subs[s].photo
                    /\ OracleScores(subs[s].photo, reports[p].photo) = {100}]_vars

\* ---------------------------------------------------------------- C36
\* C36: in every reachable state a report with escalation_notified set has
\* escalated set, and no step clears escalated while leaving
\* escalation_notified set.
C36_NotifiedImpliesEscalated ==
    \A i \in RowIds : reports[i].escalation_notified => reports[i].escalated

\* One report escalated and notified, the other notified earlier and since
\* resolved by a status update, both flags cleared.
C36_Witness ==
    /\ reports[1].escalated /\ reports[1].escalation_notified
    /\ reports[1].status = "verified"
    /\ sent[2] = 1
    /\ reports[2].status = "resolved"
    /\ ~reports[2].escalated /\ ~reports[2].escalation_notified

\* ---------------------------------------------------------------- C37
\* C37: a status update or a resolution upload for report i changes the
\* row of i only: the rows of its duplicates, of its primary and of every
\* other report are the same after the step.
C37_OnlyTheAddressedRowChanges ==
    [][\A i \in RowIds :
          ((\E status \in Statuses : UpdateStatus(i, status)) \/ Resolve(i))
             => \A j \in RowIds \ {i} : reports'[j] = reports[j]]_vars

\* A resolved duplicate whose primary is still pending with its counters
\* as the merge left them.
C37_Witness ==
    \E d \in RowIds :
        /\ reports[d].duplicate_of # NULL
        /\ reports[d].status = "resolved"
        /\ reports[reports[d].duplicate_of].status = "pending"
        /\ reports[reports[d].duplicate_of].duplicate_count = 2
        /\ reports[reports[d].duplicate_of].merged_reports = <<d>>

\* ---------------------------------------------------------------- C38
\* C38: a PATCH whose status is not pending, verified or resolved is
\* answered 400, a PATCH with a valid status for an id without a row is
\* answered 404, and either leaves the store as it was.
C38_BadStatusUpdateRejected ==
    \A id \in PatchIds : \A status \in PatchStatuses : \A fault \in Faults :
        LET r == patchReport(reports, id, status, fault)
        IN  /\ status \notin Statuses =>
                  r.http = 400 /\ r.store = reports
            /\ (status \in Statuses /\ id \notin RowIds /\ fault = "none") =>
                  r.http = 404 /\ r.store = reports
            /\ (status \in Statuses /\ id \notin RowIds) => r.store = reports

\* A store of two rows, the first verified by an earlier PATCH, on which a
\* PATCH with an unknown status and a PATCH for id 3 are both refused.
C38_Witness ==
    /\ Len(reports) = 2
    /\ reports[1].status = "verified"
    /\ patchReport(reports, 1, "closed", "none") = [http |-> 400, store |-> reports]
    /\ patchReport(reports, 3, "resolved", "none") = [http |-> 404, store |-> reports]

\* ---------------------------------------------------------------- C39
\* C39: a report stored as a duplicate is never escalated and never sent
\* to the notification sink by a sweep, however long it stays open past
\* its own deadline.
C39_DuplicateNeverEscalated ==
    \A i \in RowIds :
        ~reports[i].is_primary =>
            /\ ~reports[i].escalated
            /\ escalations[i] = 0
            /\ sent[i] = 0

====
